---- MODULE Spec2Model ----
(***************************************************************************)
(* Model of webdriver/webapp_server.go: the supervision of one             *)
(* dev_appserver child process by a devAppServerInstance.                  *)
(*                                                                         *)
(* Processes of the model:                                                 *)
(*   - the child process (writes diagnostic lines, may exit on its own);   *)
(*   - the caller of AwaitReady and the log-scanning goroutine it spawns;  *)
(*   - the caller of Close and the cmd.Wait goroutine it spawns;           *)
(*   - the admin endpoint that receives the /quit request.                 *)
(*                                                                         *)
(* Strings that the code composes are sequences of string pieces, so that  *)
(* composition is \o; an error value is such a sequence and the nil error  *)
(* is the empty sequence.  A *url.URL is the sequence of pieces of the     *)
(* parsed token and the nil pointer is the empty sequence.                 *)
(***************************************************************************)
EXTENDS Integers, Sequences, FiniteSets, TLC

\* Bound on the number of diagnostic lines the child writes.
MaxLines == 3

\* Capacity of the two completion channels: make(chan error, 1).
ChanCap == 1

\* A send on a channel completes only while the channel has room.
CanSend(ch) == Len(ch) < ChanCap

(***************************************************************************)
(* Error values                                                            *)
(***************************************************************************)
Nil == <<>>

NilURL == <<>>

ErrStartTimeout == <<"timeout starting child process">>

ErrNoURL == <<"unable to find webserver URL">>

ErrShutdownTimeout == <<"timeout killing child process">>

ErrExec == <<"exec: dev_appserver.py: executable file not found in $PATH">>

ErrTooLong == <<"bufio.Scanner: token too long">>

ErrPipeClosed == <<"read |0: file already closed">>

ErrConnRefused == <<"dial tcp: connection refused">>

ErrConnReset == <<"EOF">>

ErrStderrWrite == <<"write /dev/stderr: no space left on device">>

ErrMissingScheme == <<"missing protocol scheme">>

QuitErr(e) == <<"unable to call /quit handler: ">> \o e

StderrErr(e) == <<"error reading web_server.sh process stderr: ">> \o e

ParseErr(tok, e) == <<"failed to parse URL ">> \o tok \o <<": ">> \o e

(***************************************************************************)
(* Diagnostic lines.  A line records what the three patterns find in it:   *)
(* whether it contains the ready marker, and the token captured after the  *)
(* module marker and after the admin marker (NoMatch when the marker is    *)
(* absent).  oversize marks a line longer than bufio.Scanner's buffer.     *)
(***************************************************************************)
NoMatch == <<>>

T8080 == <<"http", "://", "localhost:8080">>

T8081 == <<"http", "://", "localhost:8081">>

T9999 == <<"http", "://", "localhost:9999">>

TBad == <<":", "8080">>

Line(r, h, a, o) == [ready |-> r, host |-> h, admin |-> a, oversize |-> o]

Lines ==
    { Line(FALSE, NoMatch, NoMatch, FALSE),
      Line(TRUE,  NoMatch, NoMatch, FALSE),
      Line(FALSE, T8080,   NoMatch, FALSE),
      Line(FALSE, T8081,   NoMatch, FALSE),
      Line(FALSE, TBad,    NoMatch, FALSE),
      Line(FALSE, NoMatch, T9999,   FALSE),
      Line(FALSE, NoMatch, TBad,    FALSE),
      Line(TRUE,  T8080,   NoMatch, FALSE),
      Line(FALSE, T8080,   TBad,    FALSE),
      Line(FALSE, NoMatch, NoMatch, TRUE) }

readyRE(line) == line.ready

\* Variant of hostRE that matches the admin marker instead of the module marker.
hostREAdminMarker(line) == line.admin

hostRE(line) == line.host

adminURLRE(line) == line.admin

\* url.Parse: a token that starts with ":" has no scheme and is rejected;
\* any other token of the model parses to a URL with the same pieces.
UrlParse(tok) ==
    IF Head(tok) = ":"
    THEN [ok |-> FALSE, url |-> NilURL, err |-> ErrMissingScheme]
    ELSE [ok |-> TRUE,  url |-> tok,    err |-> Nil]

(***************************************************************************)
(* The child process                                                       *)
(***************************************************************************)
\* "killing": SIGKILL has been sent to the child and it has not ended yet.
ProcStates == {"notstarted", "running", "killing", "exit0", "exit1", "killed"}

\* The child exists and has not ended.
Running(p) == p \in {"running", "killing"}

\* os.Process.Kill: sends SIGKILL and returns; it does not wait for the
\* process to end.  No effect on a process that has ended.
Kill(p) == IF p = "running" THEN "killing" ELSE p

ErrNotStarted == <<"exec: not started">>

\* exec.Cmd.Wait once the process is no longer running.
WaitResult(p) ==
    CASE p = "notstarted" -> ErrNotStarted
      [] p = "exit0"      -> Nil
      [] p = "exit1"      -> <<"exit status 1">>
      [] p = "killed"     -> <<"signal: killed">>

VARIABLES
    procState,   \* state of the child process
    stream,      \* lines the child has written to its stderr so far
    killers,     \* callers that have invoked Process.Kill
    baseURL,     \* devAppServerInstance.baseURL
    adminURL,    \* devAppServerInstance.adminURL
    awaitPc,     \* position of the caller of AwaitReady
    awaitErr,    \* value returned by AwaitReady
    scanPc,      \* position of the log-scanning goroutine
    pos,         \* number of lines the scanner has consumed
    errc,        \* AwaitReady's completion channel (capacity 1)
    seen,        \* the lines as s.Text() gave them to the loop body
    scanErr,     \* the error the bufio.Scanner has recorded: s.Err()
    closePc,     \* position of the caller of Close
    closeErr,    \* value returned by Close
    delivered,   \* http.Get returned a response in Close
    waitPc,      \* position of Close's cmd.Wait goroutine
    waitErr,     \* value cmd.Wait returned
    closeErrc,   \* Close's completion channel (capacity 1)
    port,        \* devAppServerInstance.port, as printed by %d
    remoteHost,  \* remoteAppServer.host
    path,        \* argument of GetWebappURL
    urlOut,      \* value returned by the last GetWebappURL
    urlFrom      \* variant that returned it: "none", "local" or "remote"

vars == <<procState, stream, killers, baseURL, adminURL, awaitPc, awaitErr,
          scanPc, pos, errc, seen, scanErr, closePc, closeErr, delivered, waitPc, waitErr,
          closeErrc, port, remoteHost, path, urlOut, urlFrom>>

callVars == <<port, remoteHost, path, urlOut, urlFrom>>

procVars == <<procState, stream, killers>>

urlVars == <<baseURL, adminURL>>

awaitVars == <<awaitPc, awaitErr>>

scanVars == <<scanPc, pos, errc, seen, scanErr>>

closeVars == <<closePc, closeErr, delivered>>

waitVars == <<waitPc, waitErr, closeErrc>>

\* A nil dereference in Close panics and takes the whole harness down.
Alive == closePc # "panicked"

Init ==
    /\ procState = "notstarted"
    /\ stream = <<>>
    /\ killers = {}
    /\ baseURL = NilURL
    /\ adminURL = NilURL
    /\ awaitPc = "idle"
    /\ awaitErr = Nil
    /\ scanPc = "idle"
    /\ pos = 0
    /\ errc = <<>>
    /\ seen = <<>>
    /\ scanErr = Nil
    /\ closePc = "idle"
    /\ closeErr = Nil
    /\ delivered = FALSE
    /\ waitPc = "idle"
    /\ waitErr = Nil
    /\ closeErrc = <<>>
    /\ port = "8080"
    /\ remoteHost = "staging.wpt.fyi"
    /\ path = <<"/", "foo">>
    /\ urlOut = <<>>
    /\ urlFrom = "none"

(***************************************************************************)
(* Child process                                                           *)
(***************************************************************************)
ChildWrite ==
    /\ Running(procState)
    /\ Len(stream) < MaxLines
    /\ \E l \in Lines : stream' = Append(stream, l)
    /\ UNCHANGED callVars
    /\ UNCHANGED <<procState, killers, urlVars, awaitVars, scanVars,
                   closeVars, waitVars>>

ChildExit ==
    /\ Running(procState)
    /\ \E s \in {"exit0", "exit1"} : procState' = s
    /\ UNCHANGED callVars
    /\ UNCHANGED <<stream, killers, urlVars, awaitVars, scanVars,
                   closeVars, waitVars>>

\* The kernel delivers the SIGKILL that Process.Kill sent: the child ends.
ChildDies ==
    /\ procState = "killing"
    /\ procState' = "killed"
    /\ UNCHANGED callVars
    /\ UNCHANGED <<stream, killers, urlVars, awaitVars, scanVars,
                   closeVars, waitVars>>

(***************************************************************************)
(* The log-scanning goroutine of AwaitReady                                *)
(***************************************************************************)
\* Variant of ProcessLine that keeps the first capture of each field: a field
\* that is already set is not written again.
ProcessLineFirstWins(line, b, a) ==
    IF line.oversize
    THEN [baseURL |-> b, adminURL |-> a, stop |-> TRUE, err |-> ErrTooLong]
    ELSE IF line.ready
    THEN [baseURL |-> b, adminURL |-> a, stop |-> TRUE, err |-> Nil]
    ELSE
      LET hm == line.host
          am == line.admin
          hp == UrlParse(hm)
          ap == UrlParse(am)
      IN  IF hm # NoMatch /\ ~hp.ok
          THEN [baseURL |-> b, adminURL |-> a, stop |-> TRUE,
                err |-> ParseErr(hm, hp.err)]
          ELSE
            LET b2 == IF hm # NoMatch /\ b = NilURL THEN hp.url ELSE b
            IN  IF am # NoMatch /\ ~ap.ok
                THEN [baseURL |-> b2, adminURL |-> a, stop |-> TRUE,
                      err |-> ParseErr(am, ap.err)]
                ELSE [baseURL |-> b2,
                      adminURL |-> IF am # NoMatch /\ a = NilURL
                                   THEN ap.url ELSE a,
                      stop |-> FALSE, err |-> Nil]

\* Variant of ProcessLine that tests the ready marker after the two captures
\* instead of before them.
ProcessLineReadyLast(line, b, a) ==
    IF line.oversize
    THEN [baseURL |-> b, adminURL |-> a, stop |-> TRUE, err |-> ErrTooLong]
    ELSE
      LET hm == line.host
          am == line.admin
          hp == UrlParse(hm)
          ap == UrlParse(am)
      IN  IF hm # NoMatch /\ ~hp.ok
          THEN [baseURL |-> b, adminURL |-> a, stop |-> TRUE,
                err |-> ParseErr(hm, hp.err)]
          ELSE
            LET b2 == IF hm # NoMatch THEN hp.url ELSE b
            IN  IF am # NoMatch /\ ~ap.ok
                THEN [baseURL |-> b2, adminURL |-> a, stop |-> TRUE,
                      err |-> ParseErr(am, ap.err)]
                ELSE [baseURL |-> b2,
                      adminURL |-> IF am # NoMatch THEN ap.url ELSE a,
                      stop |-> line.ready, err |-> Nil]

\* Variant of ProcessLine that skips a token that does not parse and goes on
\* scanning.
ProcessLineSkipBad(line, b, a) ==
    IF line.oversize
    THEN [baseURL |-> b, adminURL |-> a, stop |-> TRUE, err |-> ErrTooLong]
    ELSE IF line.ready
    THEN [baseURL |-> b, adminURL |-> a, stop |-> TRUE, err |-> Nil]
    ELSE
      LET hm == line.host
          am == line.admin
          hp == UrlParse(hm)
          ap == UrlParse(am)
      IN  [baseURL  |-> IF hm # NoMatch /\ hp.ok THEN hp.url ELSE b,
           adminURL |-> IF am # NoMatch /\ ap.ok THEN ap.url ELSE a,
           stop |-> FALSE, err |-> Nil]

\* One iteration of the scan loop on one line, given the current values of
\* the two endpoint fields: the new field values, whether the goroutine
\* stops after this line, and the error it then sends on errc.
ProcessLine(line, b, a) ==
    IF line.oversize
    THEN [baseURL |-> b, adminURL |-> a, stop |-> TRUE, err |-> ErrTooLong]
    ELSE IF readyRE(line)
    THEN [baseURL |-> b, adminURL |-> a, stop |-> TRUE, err |-> Nil]
    ELSE
      LET hm == hostRE(line)
          am == adminURLRE(line)
          hp == UrlParse(hm)
          ap == UrlParse(am)
      IN  IF hm # NoMatch /\ ~hp.ok
          THEN [baseURL |-> b, adminURL |-> a, stop |-> TRUE,
                err |-> ParseErr(hm, hp.err)]
          ELSE
            LET b2 == IF hm # NoMatch THEN hp.url ELSE b
            IN  IF am # NoMatch /\ ~ap.ok
                THEN [baseURL |-> b2, adminURL |-> a, stop |-> TRUE,
                      err |-> ParseErr(am, ap.err)]
                ELSE [baseURL |-> b2,
                      adminURL |-> IF am # NoMatch THEN ap.url ELSE a,
                      stop |-> FALSE, err |-> Nil]

\* Variant of ScanLine without the return after the send of a parse error:
\* the goroutine goes on scanning and will send again.
ScanLineNoReturn ==
    /\ Alive
    /\ scanPc = "scanning"
    /\ pos < Len(stream)
    /\ seen' = Append(seen, stream[pos + 1])
    /\ scanErr' = IF stream[pos + 1].oversize THEN ErrTooLong ELSE scanErr
    /\ LET r == ProcessLine(stream[pos + 1], baseURL, adminURL)
       IN  /\ pos' = pos + 1
           /\ baseURL' = r.baseURL
           /\ adminURL' = r.adminURL
           /\ IF r.stop
              THEN /\ CanSend(errc)
                   /\ errc' = Append(errc, r.err)
                   /\ scanPc' = IF r.err \in {Nil, ErrTooLong}
                                THEN "done" ELSE "scanning"
              ELSE UNCHANGED <<errc, scanPc>>
    /\ UNCHANGED callVars
    /\ UNCHANGED <<procVars, awaitVars, closeVars, waitVars>>

\* s.Scan() delivers the next line the child has written, or returns false
\* with ErrTooLong on a line that does not fit its buffer.
ScanLine ==
    /\ Alive
    /\ scanPc = "scanning"
    /\ pos < Len(stream)
    /\ seen' = Append(seen, stream[pos + 1])
    /\ scanErr' = IF stream[pos + 1].oversize THEN ErrTooLong ELSE scanErr
    /\ LET r == ProcessLine(stream[pos + 1], baseURL, adminURL)
       IN  /\ pos' = pos + 1
           /\ baseURL' = r.baseURL
           /\ adminURL' = r.adminURL
           /\ IF r.stop
              THEN /\ CanSend(errc)
                   /\ errc' = Append(errc, r.err)
                   /\ scanPc' = "done"
              ELSE UNCHANGED <<errc, scanPc>>
    /\ UNCHANGED callVars
    /\ UNCHANGED <<procVars, awaitVars, closeVars, waitVars>>

\* What is left of a captured token when the line is cut: nothing (cut before
\* the token), a proper prefix (cut inside it) or the whole token.
CutTokens(tok) == {SubSeq(tok, 1, k) : k \in 0..Len(tok)}

\* The tokens the scanner can get for a line that a failing read brought only
\* in part: a prefix of the line, which bufio.Scanner delivers as the final,
\* unterminated token.  A marker is in the prefix or not; at most one
\* captured token is cut inside; what is delivered fits the buffer.
CutLines(line) ==
    {Line(r, h, a, FALSE) :
        r \in {line.ready, FALSE},
        h \in CutTokens(line.host),
        a \in CutTokens(line.admin)}
    \ {l \in {Line(r, h, a, FALSE) :
                  r \in BOOLEAN,
                  h \in CutTokens(line.host),
                  a \in CutTokens(line.admin)} :
          /\ l.host \notin {NoMatch, line.host}
          /\ l.admin \notin {NoMatch, line.admin}}

\* A Read of the scanner returns the error e and nothing is left in the
\* scanner's buffer: s.Scan() returns false, and the goroutine sends s.Err().
ScanNoToken(e) ==
    /\ scanErr' = e
    /\ errc' = Append(errc, e)
    /\ UNCHANGED <<pos, seen, urlVars>>

\* A Read of the scanner returns the error e while the scanner holds a prefix
\* of the next unread line: s.Scan() delivers the prefix as its last token
\* and the loop body runs on it, so it can set a URL (possibly a truncated
\* one), break on the ready marker, or send a parse error and return.  Unless
\* a parse error was sent, the goroutine sends s.Err(), which is e.
ScanLastToken(e) ==
    /\ pos < Len(stream)
    /\ scanErr' = e
    /\ \E l \in CutLines(stream[pos + 1]) :
          LET r == ProcessLine(l, baseURL, adminURL)
          IN  /\ pos' = pos + 1
              /\ seen' = Append(seen, l)
              /\ baseURL' = r.baseURL
              /\ adminURL' = r.adminURL
              /\ errc' = Append(errc, IF r.stop /\ r.err # Nil THEN r.err ELSE e)

\* A read of the io.TeeReader fails: the child's bytes were read from the
\* pipe, the copy to os.Stderr returns an error, and the reader returns the
\* byte count of that write together with its error.  The scanner gets only
\* the bytes that were copied and records the error (it keeps the first
\* one).  Of the next unread line either nothing was copied, or a prefix
\* was.  Lines copied whole before the cut are consumed as ScanLine does.
ScanTeeFail ==
    /\ Alive
    /\ scanPc = "scanning"
    /\ pos < Len(stream)
    /\ CanSend(errc)
    /\ \/ ScanNoToken(ErrStderrWrite)
       \/ ScanLastToken(ErrStderrWrite)
    /\ scanPc' = "done"
    /\ UNCHANGED callVars
    /\ UNCHANGED <<procVars, awaitVars, closeVars, waitVars>>

\* Variant of ScanEOF in which the goroutine ends without reporting on errc.
ScanEOFSilent ==
    /\ Alive
    /\ scanPc = "scanning"
    /\ pos = Len(stream)
    /\ ~Running(procState)
    /\ scanPc' = "done"
    /\ UNCHANGED callVars
    /\ UNCHANGED <<pos, errc, seen, scanErr, procVars, urlVars, awaitVars,
                   closeVars, waitVars>>

\* s.Scan() returns false at end of stream: the child is gone and every line
\* it wrote has been consumed; the goroutine sends s.Err(), nil at this point.
ScanEOF ==
    /\ Alive
    /\ scanPc = "scanning"
    /\ pos = Len(stream)
    /\ ~Running(procState)
    /\ CanSend(errc)
    /\ errc' = Append(errc, scanErr)
    /\ scanPc' = "done"
    /\ UNCHANGED callVars
    /\ UNCHANGED <<pos, seen, scanErr, procVars, urlVars, awaitVars,
                   closeVars, waitVars>>

\* cmd.Wait has waited for the child and closed the read end of the stderr
\* pipe under the scanner (a Wait that found no process closes nothing): the
\* scanner's Read returns an error.  What the child wrote and the scanner had
\* not read is lost, except a prefix of the next line that the scanner
\* already holds.
ScanClosed ==
    /\ Alive
    /\ scanPc = "scanning"
    /\ waitPc = "done"
    /\ waitErr # ErrNotStarted
    /\ CanSend(errc)
    /\ \/ ScanNoToken(ErrPipeClosed)
       \/ ScanLastToken(ErrPipeClosed)
    /\ scanPc' = "done"
    /\ UNCHANGED callVars
    /\ UNCHANGED <<procVars, awaitVars, closeVars, waitVars>>

(***************************************************************************)
(* AwaitReady                                                              *)
(***************************************************************************)
\* i.cmd.Start() fails: AwaitReady returns the error, nothing was spawned.
AwaitStartFail ==
    /\ Alive
    /\ awaitPc = "idle"
    /\ awaitPc' = "returned"
    /\ awaitErr' = ErrExec
    /\ UNCHANGED callVars
    /\ UNCHANGED <<procVars, urlVars, scanVars, closeVars, waitVars>>

\* i.cmd.Start() succeeds, the scanning goroutine is spawned and the caller
\* reaches the select.
AwaitStart ==
    /\ Alive
    /\ awaitPc = "idle"
    /\ procState' = "running"
    /\ scanPc' = "scanning"
    /\ awaitPc' = "select"
    /\ UNCHANGED callVars
    /\ UNCHANGED <<stream, killers, urlVars, awaitErr, pos, errc, seen, scanErr,
                   closeVars, waitVars>>

\* case <-time.After(i.startupTimeout)
AwaitTimeout ==
    /\ Alive
    /\ awaitPc = "select"
    /\ procState' = Kill(procState)
    /\ killers' = killers \cup {"AwaitReady"}
    /\ awaitErr' = ErrStartTimeout
    /\ awaitPc' = "returned"
    /\ UNCHANGED callVars
    /\ UNCHANGED <<stream, urlVars, scanVars, closeVars, waitVars>>

\* Variant of AwaitResult without the check of baseURL.
AwaitResultNoCheck(e, b) ==
    IF e # Nil THEN StderrErr(e) ELSE Nil

\* What AwaitReady returns after receiving e from errc with baseURL = b.
AwaitResult(e, b) ==
    IF e # Nil THEN StderrErr(e)
    ELSE IF b = NilURL THEN ErrNoURL
    ELSE Nil

\* Variant of AwaitRecv that also kills the child when it returns an error.
AwaitRecvKillOnError ==
    /\ Alive
    /\ awaitPc = "select"
    /\ errc # <<>>
    /\ errc' = Tail(errc)
    /\ awaitErr' = AwaitResult(Head(errc), baseURL)
    /\ awaitPc' = "returned"
    /\ IF AwaitResult(Head(errc), baseURL) # Nil
       THEN /\ procState' = Kill(procState)
            /\ killers' = killers \cup {"AwaitReady"}
       ELSE UNCHANGED <<procState, killers>>
    /\ UNCHANGED callVars
    /\ UNCHANGED <<stream, urlVars, scanPc, pos, seen, scanErr, closeVars,
                   waitVars>>

\* case err := <-errc
AwaitRecv ==
    /\ Alive
    /\ awaitPc = "select"
    /\ errc # <<>>
    /\ errc' = Tail(errc)
    /\ awaitErr' = AwaitResult(Head(errc), baseURL)
    /\ awaitPc' = "returned"
    /\ UNCHANGED callVars
    /\ UNCHANGED <<procVars, urlVars, scanPc, pos, seen, scanErr, closeVars,
                   waitVars>>

(***************************************************************************)
(* Close                                                                   *)
(***************************************************************************)
\* Close is entered: errc is made and the cmd.Wait goroutine is spawned.
\* Nothing in Close looks at what AwaitReady has done.
CloseCall ==
    /\ closePc = "idle"
    /\ closePc' = "get"
    /\ waitPc' = "waiting"
    /\ UNCHANGED callVars
    /\ UNCHANGED <<procVars, urlVars, awaitVars, scanVars, closeErr,
                   delivered, waitErr, closeErrc>>

\* errc <- i.cmd.Wait(): Wait returns at once when the process was never
\* started, else once the process has ended.
WaitReturn ==
    /\ Alive
    /\ waitPc = "waiting"
    /\ ~Running(procState)
    /\ waitErr' = WaitResult(procState)
    /\ CanSend(closeErrc)
    /\ closeErrc' = Append(closeErrc, WaitResult(procState))
    /\ waitPc' = "done"
    /\ UNCHANGED callVars
    /\ UNCHANGED <<procVars, urlVars, awaitVars, scanVars, closeVars>>

\* i.adminURL.String() on a nil *url.URL.
CloseGetPanic ==
    /\ closePc = "get"
    /\ adminURL = NilURL
    /\ closePc' = "panicked"
    /\ UNCHANGED callVars
    /\ UNCHANGED <<procVars, urlVars, awaitVars, scanVars, closeErr,
                   delivered, waitVars>>

\* Variant of CloseDeliveryFailed that returns the error without the kill.
CloseDeliveryFailedNoKill(e) ==
    /\ closeErr' = QuitErr(e)
    /\ closePc' = "returned"
    /\ UNCHANGED callVars
    /\ UNCHANGED <<procVars, urlVars, awaitVars, scanVars, delivered, waitVars>>

\* http.Get returned the error e: kill and return.
CloseDeliveryFailed(e) ==
    /\ procState' = Kill(procState)
    /\ killers' = killers \cup {"Close"}
    /\ closeErr' = QuitErr(e)
    /\ closePc' = "returned"
    /\ UNCHANGED callVars
    /\ UNCHANGED <<stream, urlVars, awaitVars, scanVars, delivered, waitVars>>

\* http.Get cannot connect to the admin endpoint.
CloseGetConnFail ==
    /\ closePc = "get"
    /\ adminURL # NilURL
    /\ CloseDeliveryFailed(ErrConnRefused)

\* http.Get connects and sends the request; it now waits for the response
\* (http.DefaultClient has no timeout).
CloseGetConnect ==
    /\ closePc = "get"
    /\ adminURL # NilURL
    /\ closePc' = "awaitResp"
    /\ UNCHANGED callVars
    /\ UNCHANGED <<procVars, urlVars, awaitVars, scanVars, closeErr,
                   delivered, waitVars>>

\* The admin endpoint answers: http.Get returns a response, its body is
\* closed and the caller reaches the select.
AdminReply ==
    /\ closePc = "awaitResp"
    /\ delivered' = TRUE
    /\ closePc' = "select"
    /\ UNCHANGED callVars
    /\ UNCHANGED <<procVars, urlVars, awaitVars, scanVars, closeErr, waitVars>>

\* The connection breaks before a response: http.Get returns an error.
AdminReset ==
    /\ closePc = "awaitResp"
    /\ CloseDeliveryFailed(ErrConnReset)

\* Variant of CloseTimeout that kills the child and reports no error.
CloseTimeoutSilent ==
    /\ closePc = "select"
    /\ procState' = Kill(procState)
    /\ killers' = killers \cup {"Close"}
    /\ closeErr' = Nil
    /\ closePc' = "returned"
    /\ UNCHANGED callVars
    /\ UNCHANGED <<stream, urlVars, awaitVars, scanVars, delivered, waitVars>>

\* case <-time.After(15 * time.Second)
CloseTimeout ==
    /\ closePc = "select"
    /\ procState' = Kill(procState)
    /\ killers' = killers \cup {"Close"}
    /\ closeErr' = ErrShutdownTimeout
    /\ closePc' = "returned"
    /\ UNCHANGED callVars
    /\ UNCHANGED <<stream, urlVars, awaitVars, scanVars, delivered, waitVars>>

\* Variant of CloseRecv that discards the value received from errc.
CloseRecvDiscard ==
    /\ closePc = "select"
    /\ closeErrc # <<>>
    /\ closeErr' = Nil
    /\ closeErrc' = Tail(closeErrc)
    /\ closePc' = "returned"
    /\ UNCHANGED callVars
    /\ UNCHANGED <<procVars, urlVars, awaitVars, scanVars, delivered,
                   waitPc, waitErr>>

\* case err = <-errc
CloseRecv ==
    /\ closePc = "select"
    /\ closeErrc # <<>>
    /\ closeErr' = Head(closeErrc)
    /\ closeErrc' = Tail(closeErrc)
    /\ closePc' = "returned"
    /\ UNCHANGED callVars
    /\ UNCHANGED <<procVars, urlVars, awaitVars, scanVars, delivered,
                   waitPc, waitErr>>

(***************************************************************************)
(* GetWebappURL                                                            *)
(***************************************************************************)
Host == "localhost"

Ports == {"8080", "8081"}

RemoteHosts == {"staging.wpt.fyi", "wpt.fyi"}

Paths ==
    { <<"/", "foo">>,
      <<"foo">>,
      <<"/", "foo", "/", "bar">>,
      <<"foo", "/", "bar">>,
      <<"/">> }

\* remoteAppServer.GetWebappURL: "https://%s%s".
RemoteAppServerURL(h, pth) == <<"https", "://", h>> \o pth

\* (*url.URL).String(): the scheme and ":", then "//" only when the URL has
\* a host or a path.  The URL parsed from a token cut right after "://" has
\* neither and prints as "http:"; for every other token of the model the
\* result is the token.
URLString(u) ==
    IF Len(u) = 2 /\ u[2] = "://" THEN <<u[1], ":">> ELSE u

\* Variant of DevAppServerURL whose fallback uses the scheme of the remote
\* variant.
DevAppServerURLSecure(b, h, p, pth) ==
    IF b # NilURL
    THEN URLString(b) \o pth
    ELSE <<"https", "://", h, ":", p>> \o pth

\* devAppServerInstance.GetWebappURL: "%s%s" on baseURL.String() when the
\* field is set, "http://%s:%d%s" on host and port otherwise.
DevAppServerURL(b, h, p, pth) ==
    IF b # NilURL
    THEN URLString(b) \o pth
    ELSE <<"http", "://", h, ":", p>> \o pth

\* Variant of GetWebappURL that refuses to answer before AwaitReady has
\* returned success.
GetWebappURLGuarded ==
    /\ Alive
    /\ awaitPc = "returned"
    /\ awaitErr = Nil
    /\ urlOut' = DevAppServerURL(baseURL, Host, port, path)
    /\ urlFrom' = "local"
    /\ UNCHANGED <<port, remoteHost, path>>
    /\ UNCHANGED <<procVars, urlVars, awaitVars, scanVars, closeVars, waitVars>>

\* A call of GetWebappURL(path) on the local instance; nothing in it depends
\* on how far AwaitReady or Close have got.
GetWebappURL ==
    /\ Alive
    /\ urlOut' = DevAppServerURL(baseURL, Host, port, path)
    /\ urlFrom' = "local"
    /\ UNCHANGED <<port, remoteHost, path>>
    /\ UNCHANGED <<procVars, urlVars, awaitVars, scanVars, closeVars, waitVars>>

\* A call of GetWebappURL(path) on a remoteAppServer.
RemoteGetWebappURL ==
    /\ urlOut' = RemoteAppServerURL(remoteHost, path)
    /\ urlFrom' = "remote"
    /\ UNCHANGED <<port, remoteHost, path>>
    /\ UNCHANGED <<procVars, urlVars, awaitVars, scanVars, closeVars, waitVars>>

Next ==
    \/ ChildWrite
    \/ ChildExit
    \/ ChildDies
    \/ ScanLine
    \/ ScanEOF
    \/ ScanClosed
    \/ AwaitStartFail
    \/ AwaitStart
    \/ AwaitTimeout
    \/ AwaitRecv
    \/ CloseCall
    \/ WaitReturn
    \/ CloseGetPanic
    \/ CloseGetConnFail
    \/ CloseGetConnect
    \/ AdminReply
    \/ AdminReset
    \/ CloseTimeout
    \/ CloseRecv

Spec == Init /\ [][Next]_vars

\* The instance together with callers of GetWebappURL.
UseNext == Next \/ GetWebappURL

UseSpec == Init /\ [][UseNext]_vars

\* GetWebappURL as a function of its inputs: each initial state is an
\* instance before discovery (as constructed), after discovery (the module
\* line and the ready marker were scanned and AwaitReady returned success),
\* or with a baseURL parsed from a cut token (the admin line was scanned, a
\* Close that overlapped AwaitReady failed to deliver /quit and killed the
\* child, cmd.Wait closed the pipe and the scanner delivered a prefix of the
\* module line), with a port, a remote host and a path.
UrlInit ==
    /\ port \in Ports
    /\ remoteHost \in RemoteHosts
    /\ path \in Paths
    /\ urlOut = <<>>
    /\ urlFrom = "none"
    /\ errc = <<>>
    /\ \/ /\ baseURL = NilURL
          /\ adminURL = NilURL
          /\ procState = "notstarted"
          /\ stream = <<>>
          /\ seen = <<>>
          /\ pos = 0
          /\ scanPc = "idle"
          /\ scanErr = Nil
          /\ awaitPc = "idle"
          /\ awaitErr = Nil
          /\ killers = {}
          /\ closePc = "idle"
          /\ closeErr = Nil
          /\ waitPc = "idle"
          /\ waitErr = Nil
          /\ closeErrc = <<>>
       \/ /\ baseURL \in {T8080, T8081}
          /\ adminURL = NilURL
          /\ procState = "running"
          /\ stream = <<Line(FALSE, baseURL, NoMatch, FALSE),
                        Line(TRUE, NoMatch, NoMatch, FALSE)>>
          /\ seen = stream
          /\ pos = 2
          /\ scanPc = "done"
          /\ scanErr = Nil
          /\ awaitPc = "returned"
          /\ awaitErr = Nil
          /\ killers = {}
          /\ closePc = "idle"
          /\ closeErr = Nil
          /\ waitPc = "idle"
          /\ waitErr = Nil
          /\ closeErrc = <<>>
       \/ /\ baseURL \in CutTokens(T8080) \ {NoMatch, T8080}
          /\ adminURL = T9999
          /\ procState = "killed"
          /\ stream = <<Line(FALSE, NoMatch, T9999, FALSE),
                        Line(FALSE, T8080, NoMatch, FALSE)>>
          /\ seen = <<Line(FALSE, NoMatch, T9999, FALSE),
                      Line(FALSE, baseURL, NoMatch, FALSE)>>
          /\ pos = 2
          /\ scanPc = "done"
          /\ scanErr = ErrPipeClosed
          /\ awaitPc = "returned"
          /\ awaitErr = StderrErr(ErrPipeClosed)
          /\ killers = {"Close"}
          /\ closePc = "returned"
          /\ closeErr = QuitErr(ErrConnRefused)
          /\ waitPc = "done"
          /\ waitErr = WaitResult("killed")
          /\ closeErrc = <<WaitResult("killed")>>
    /\ delivered = FALSE

UrlNext == GetWebappURL \/ RemoteGetWebappURL

UrlSpec == UrlInit /\ [][UrlNext]_vars

\* The instance when writes to the harness's own stderr can fail.
FaultNext == Next \/ ScanTeeFail

FaultSpec == Init /\ [][FaultNext]_vars

TypeOK ==
    /\ procState \in ProcStates
    /\ Len(stream) <= MaxLines
    /\ killers \subseteq {"AwaitReady", "Close"}
    /\ awaitPc \in {"idle", "select", "returned"}
    /\ scanPc \in {"idle", "scanning", "done"}
    /\ pos \in 0..Len(stream)
    /\ Len(seen) = pos
    /\ Len(errc) <= 1
    /\ closePc \in {"idle", "get", "awaitResp", "select", "returned", "panicked"}
    /\ delivered \in BOOLEAN
    /\ waitPc \in {"idle", "waiting", "done"}
    /\ Len(closeErrc) <= 1
    /\ urlFrom \in {"none", "local", "remote"}

(***************************************************************************)
(* Fairness: every step of the harness's own goroutines is eventually      *)
(* taken when it stays enabled (the Go scheduler runs runnable goroutines  *)
(* and timers fire).  The child process and the admin endpoint are the     *)
(* environment and owe nothing, except that the kernel ends a process that *)
(* was sent SIGKILL.                                                       *)
(***************************************************************************)
Fairness ==
    /\ WF_vars(ChildDies)
    /\ WF_vars(ScanLine)
    /\ WF_vars(ScanEOF)
    /\ WF_vars(ScanClosed)
    /\ WF_vars(AwaitTimeout)
    /\ WF_vars(AwaitRecv)
    /\ WF_vars(WaitReturn)
    /\ WF_vars(CloseGetPanic)
    /\ WF_vars(CloseGetConnFail \/ CloseGetConnect)
    /\ WF_vars(CloseTimeout)
    /\ WF_vars(CloseRecv)

LiveSpec == Init /\ [][Next]_vars /\ Fairness

(***************************************************************************)
(* Derived notions used by the properties                                  *)
(***************************************************************************)
Started == procState # "notstarted"

AwaitReturned == awaitPc = "returned"

CloseReturned == closePc = "returned"

\* Close has taken the value of the cmd.Wait goroutine out of its channel.
CloseConsumed == waitPc = "done" /\ closeErrc = <<>>

QuitErrs == {QuitErr(ErrConnRefused), QuitErr(ErrConnReset)}

ExitErrs == {WaitResult(p) : p \in ProcStates \ {"running", "killing"}}

ReadySeen == \E k \in 1..pos : ~seen[k].oversize /\ seen[k].ready

NoReadyInStream == \A k \in 1..Len(stream) : ~stream[k].ready

SetMax(S) == CHOOSE x \in S : \A y \in S : y <= x

\* The line writes baseURL: the scan reaches its module-marker branch and
\* the token parses.
HostWrites(l) ==
    /\ ~l.oversize
    /\ ~l.ready
    /\ l.host # NoMatch
    /\ UrlParse(l.host).ok

\* The line writes adminURL: the scan reaches its admin-marker branch (the
\* module-marker branch did not fail) and the token parses.
AdminWrites(l) ==
    /\ ~l.oversize
    /\ ~l.ready
    /\ (l.host = NoMatch \/ UrlParse(l.host).ok)
    /\ l.admin # NoMatch
    /\ UrlParse(l.admin).ok

LastHost ==
    LET K == {k \in 1..pos : HostWrites(seen[k])}
    IN  IF K = {} THEN NilURL ELSE UrlParse(seen[SetMax(K)].host).url

LastAdmin ==
    LET K == {k \in 1..pos : AdminWrites(seen[k])}
    IN  IF K = {} THEN NilURL ELSE UrlParse(seen[SetMax(K)].admin).url

(***************************************************************************)
(* Properties                                                              *)
(***************************************************************************)

\* C1: whenever Close has returned, with or without an error, the child
\* process of the instance is not running (it has exited or was killed).
C1_CloseLeavesNoChild ==
    CloseReturned => procState \in {"exit0", "exit1", "killed"}

\* C2: AwaitReady returns no error only if both baseURL and adminURL have
\* been captured.
C2_ReadyImpliesBothURLs ==
    (AwaitReturned /\ awaitErr = Nil) =>
        (baseURL # NilURL /\ adminURL # NilURL)

\* C3: if the stream has closed and no line of it contains the ready
\* marker, a returned AwaitReady has not returned success.
C3_NoReadyNoSuccess ==
    (AwaitReturned /\ Started /\ ~Running(procState) /\ NoReadyInStream) =>
        awaitErr # Nil

\* C4: when AwaitReady has returned the timeout error, it has issued the
\* kill and the child is no longer running.
C4_TimeoutKills ==
    (AwaitReturned /\ awaitErr = ErrStartTimeout) =>
        ("AwaitReady" \in killers /\ Started /\ ~Running(procState))

\* C5: every call of Close eventually ends (it returns; a panic also ends
\* the call), whatever the child and the admin endpoint do.
C5_CloseTerminates ==
    (closePc # "idle") ~> (closePc \in {"returned", "panicked"})

\* C6: when Close has returned and http.Get had failed, Close has issued the
\* kill (the child has been sent SIGKILL unless it had already ended), the
\* error is the delivery failure, and Close has not taken the process-exit
\* result out of its channel.
C6_DeliveryFailureKills ==
    (CloseReturned /\ ~delivered) =>
        /\ closeErr \in QuitErrs
        /\ "Close" \in killers
        /\ procState \in {"killing", "killed", "exit0", "exit1"}
        /\ ~CloseConsumed

\* Close returned the delivery failure right after sending SIGKILL to a
\* child that was still running; the cmd.Wait goroutine has not reported.
C6_Witness ==
    /\ CloseReturned
    /\ closeErr = QuitErr(ErrConnRefused)
    /\ procState = "killing"
    /\ killers = {"Close"}
    /\ waitPc = "waiting"

\* C7: when Close has returned after a delivered quit request without having
\* received the process-exit result, it has issued the kill (the child has
\* been sent SIGKILL unless it had already ended), and the error is the
\* shutdown timeout, which is neither a delivery failure nor a result of
\* cmd.Wait.
C7_GraceExpiryKills ==
    (CloseReturned /\ delivered /\ ~CloseConsumed) =>
        /\ closeErr = ErrShutdownTimeout
        /\ "Close" \in killers
        /\ procState \in {"killing", "killed", "exit0", "exit1"}
        /\ closeErr \notin QuitErrs
        /\ closeErr \notin ExitErrs

\* Close returned the shutdown timeout and the cmd.Wait goroutine has since
\* reported the kill into the channel nobody reads.
C7_Witness ==
    /\ CloseReturned
    /\ delivered
    /\ closeErr = ErrShutdownTimeout
    /\ procState = "killed"
    /\ "Close" \in killers
    /\ closeErrc = << <<"signal: killed">> >>

\* C8: when Close has returned after a delivered quit request by receiving
\* the process-exit result, it returns exactly what cmd.Wait returned and
\* has issued no kill; when cmd.Wait waited for the child, that is nil for a
\* clean exit and the exit error otherwise.
C8_ExitResultReturned ==
    (CloseReturned /\ delivered /\ CloseConsumed) =>
        /\ closeErr = waitErr
        /\ waitErr # ErrNotStarted => closeErr = WaitResult(procState)
        /\ "Close" \notin killers

\* The child exited with a non-zero status after the quit request and Close
\* returned that exit error.
C8_Witness ==
    /\ CloseReturned
    /\ delivered
    /\ CloseConsumed
    /\ procState = "exit1"
    /\ closeErr = <<"exit status 1">>
    /\ killers = {}

\* C9 as stated: at the moment AwaitReady returns after the child was
\* started, exactly one of {baseURL resolved, startup failed, timeout
\* expired} is true.
C9_ExactlyOneOutcome ==
    [][(awaitPc = "select" /\ awaitPc' = "returned") =>
         LET resolved == baseURL' # NilURL
             timedOut == awaitErr' = ErrStartTimeout
             failed   == awaitErr' # Nil /\ awaitErr' # ErrStartTimeout
         IN  \/ resolved /\ ~failed /\ ~timedOut
             \/ ~resolved /\ failed /\ ~timedOut
             \/ ~resolved /\ ~failed /\ timedOut]_vars

\* C9 amended: once AwaitReady has returned after the child was started,
\* success implies that the scan is over and baseURL is resolved, and the
\* discovery failure implies that baseURL is absent; the timeout and the
\* scan-error returns say nothing about baseURL.
C9_OutcomeVsBaseURL ==
    (AwaitReturned /\ Started) =>
        /\ (awaitErr = Nil => (baseURL # NilURL /\ scanPc = "done"))
        /\ (awaitErr = ErrNoURL => (baseURL = NilURL /\ scanPc = "done"))

\* AwaitReady returned success with a resolved baseURL.
C9_Witness ==
    /\ AwaitReturned
    /\ awaitErr = Nil
    /\ baseURL = T8081
    /\ ReadySeen

\* C10 as stated: once an endpoint field has a value, no later step
\* changes it.
C10_AssignedAtMostOnce ==
    [][/\ (baseURL # NilURL => baseURL' = baseURL)
       /\ (adminURL # NilURL => adminURL' = adminURL)]_vars

\* C10 amended: each endpoint field holds the parsed token of the last line
\* scanned so far that wrote it (absent when no line has); a later matching
\* line overwrites the field.  The lines are taken as the scanner got them:
\* the last one may be a line cut by a failed read, with its token cut.
C10_LastMatchWins ==
    /\ baseURL = LastHost
    /\ adminURL = LastAdmin

\* The second module line has overwritten the baseURL captured from the
\* first one.
C10_Witness ==
    /\ pos >= 2
    /\ seen[1].host = T8080
    /\ seen[2].host = T8081
    /\ baseURL = T8081

(***************************************************************************)
(* Scenarios on the diagnostic stream                                      *)
(***************************************************************************)
\* AwaitReady has taken the scanner's report out of errc.
AwaitConsumed == scanPc = "done" /\ errc = <<>>

LAdmin == Line(FALSE, NoMatch, T9999, FALSE)

LHost == Line(FALSE, T8080, NoMatch, FALSE)

LReady == Line(TRUE, NoMatch, NoMatch, FALSE)

\* C11: when the child wrote only the admin line and exited, and the scan is
\* over, AwaitReady can return at once through the errc branch, and having
\* taken the scanner's report it has returned "unable to find webserver URL"
\* and has not gone through the timeout branch.  The scenario is AwaitReady
\* on its own: no call of Close has been made, so the stream ended because
\* the child exited and not because cmd.Wait closed the pipe.
C11_AdminOnlyIsDiscoveryFailure ==
    (Started /\ ~Running(procState) /\ stream = <<LAdmin>> /\ scanPc = "done"
        /\ closePc = "idle") =>
        /\ (awaitPc = "select" => ENABLED AwaitRecv)
        /\ (AwaitReturned /\ AwaitConsumed) =>
              /\ awaitErr = ErrNoURL
              /\ awaitErr # ErrStartTimeout
              /\ "AwaitReady" \notin killers

\* The child wrote the admin line and exited with a failure; AwaitReady
\* returned the discovery failure with only adminURL captured.
C11_Witness ==
    /\ AwaitReturned
    /\ awaitErr = ErrNoURL
    /\ stream = <<LAdmin>>
    /\ procState = "exit1"
    /\ adminURL = T9999
    /\ baseURL = NilURL
    /\ killers = {}
    /\ closePc = "idle"

\* C12: when the three lines the scanner got are the admin line for
\* localhost:9999 and the module line for localhost:8080, in either order,
\* followed by the ready marker, all read without a read error, and
\* AwaitReady has taken the scanner's report, it has returned success with
\* baseURL and adminURL equal to the two tokens.
C12_ScenarioSucceeds ==
    (/\ AwaitReturned
     /\ AwaitConsumed
     /\ scanErr = Nil
     /\ seen \in {<<LAdmin, LHost, LReady>>, <<LHost, LAdmin, LReady>>}) =>
        /\ awaitErr = Nil
        /\ baseURL = T8080
        /\ adminURL = T9999

\* The scenario of the specification: admin line, module line, ready marker,
\* then the stream closes; AwaitReady succeeded.
C12_Witness ==
    /\ AwaitReturned
    /\ awaitErr = Nil
    /\ stream = <<LAdmin, LHost, LReady>>
    /\ seen = stream
    /\ scanErr = Nil
    /\ ~Running(procState)
    /\ baseURL = T8080
    /\ adminURL = T9999

(***************************************************************************)
(* GetWebappURL                                                            *)
(***************************************************************************)
StartsWithSlash(pth) == pth # <<>> /\ Head(pth) = "/"

\* The path with exactly one "/" in front of it.
OneSlash(pth) == IF StartsWithSlash(pth) THEN pth ELSE <<"/">> \o pth

\* scheme://host[:port] of the local variant: the discovered URL as it
\* prints, or host and port before discovery.
LocalOrigin ==
    IF baseURL # NilURL
    THEN URLString(baseURL)
    ELSE <<"http", "://", Host, ":", port>>

RemoteOrigin == <<"https", "://", remoteHost>>

HostAfter(n) ==
    LET K == {k \in 1..n : HostWrites(seen[k])}
    IN  IF K = {} THEN NilURL ELSE UrlParse(seen[SetMax(K)].host).url

AdminAfter(n) ==
    LET K == {k \in 1..n : AdminWrites(seen[k])}
    IN  IF K = {} THEN NilURL ELSE UrlParse(seen[SetMax(K)].admin).url

IsReadyLine(l) == ~l.oversize /\ l.ready

\* The module token of the line is matched and does not parse.
HostFails(l) ==
    /\ ~l.oversize
    /\ ~l.ready
    /\ l.host # NoMatch
    /\ ~UrlParse(l.host).ok

\* The admin token of the line is reached and does not parse.
AdminFails(l) ==
    /\ ~l.oversize
    /\ ~l.ready
    /\ (l.host = NoMatch \/ UrlParse(l.host).ok)
    /\ l.admin # NoMatch
    /\ ~UrlParse(l.admin).ok

FailedToken(l) == IF HostFails(l) THEN l.host ELSE l.admin

\* C14: a line with the ready marker that the scanner has got is the last
\* line it consumes: the scan is over whether or not the stream has closed,
\* the two fields hold what the lines before it gave them (the ready line
\* itself and the later lines capture nothing), and the scan has reported
\* completion: it has sent s.Err(), which is nil unless the ready line came
\* with a failed read after cmd.Wait closed the pipe.
C14_ScanStopsAtReady ==
    \A k \in 1..pos :
        IsReadyLine(seen[k]) =>
            /\ pos = k
            /\ scanPc = "done"
            /\ baseURL = HostAfter(k - 1)
            /\ adminURL = AdminAfter(k - 1)
            /\ \/ errc = <<scanErr>>
               \/ errc = <<>> /\ AwaitReturned
            /\ \/ scanErr = Nil
               \/ scanErr = ErrPipeClosed /\ waitPc = "done"

\* The first line carries the ready marker and a module token, the child
\* went on to write a module line and an admin line and is still running;
\* the scan is over and nothing was captured.
C14_Witness ==
    /\ Len(stream) = 3
    /\ stream[1] = Line(TRUE, T8080, NoMatch, FALSE)
    /\ stream[2] = Line(FALSE, T8081, NoMatch, FALSE)
    /\ stream[3] = LAdmin
    /\ pos = 1
    /\ seen = <<stream[1]>>
    /\ scanPc = "done"
    /\ Running(procState)
    /\ baseURL = NilURL
    /\ adminURL = NilURL

\* C15: a line the scanner got whose captured token does not parse is the
\* last line it consumes; that line does not write the field of the failed
\* token;
\* the scanner reports the parse failure, and AwaitReady, once it has taken
\* the report, has returned the error that carries it.
C15_ParseFailureEndsScan ==
    \A k \in 1..pos :
        (HostFails(seen[k]) \/ AdminFails(seen[k])) =>
            LET e == ParseErr(FailedToken(seen[k]), ErrMissingScheme)
            IN  /\ pos = k
                /\ scanPc = "done"
                /\ HostFails(seen[k]) => baseURL = HostAfter(k - 1)
                /\ adminURL = AdminAfter(k - 1)
                /\ \/ errc = <<e>>
                   \/ /\ errc = <<>>
                      /\ AwaitReturned
                      /\ awaitErr = StderrErr(e)
                      /\ awaitErr # Nil
                      /\ awaitErr # ErrStartTimeout

\* The admin token of the first line did not parse, its module token was
\* captured, a later line was left unread and AwaitReady returned the error.
C15_Witness ==
    /\ Len(stream) >= 2
    /\ stream[1] = Line(FALSE, T8080, TBad, FALSE)
    /\ pos = 1
    /\ seen = <<stream[1]>>
    /\ baseURL = T8080
    /\ adminURL = NilURL
    /\ AwaitReturned
    /\ awaitErr = StderrErr(ParseErr(TBad, ErrMissingScheme))

(***************************************************************************)
(* Forwarding of the child's diagnostic output                             *)
(***************************************************************************)
\* C16: a failure of the copy of the child's output to the harness's stderr
\* never makes AwaitReady fail: AwaitReady never returns the error of that
\* write.
C16_ForwardingNeverFails ==
    AwaitReturned => awaitErr # StderrErr(ErrStderrWrite)

(***************************************************************************)
(* Use of the instance around AwaitReady                                   *)
(***************************************************************************)
\* C17 as stated: an operation of the local instance has completed only if
\* AwaitReady has returned.
C17_NoUseBeforeResolution ==
    (urlFrom = "local" \/ closePc = "returned") => AwaitReturned

\* C17 amended: GetWebappURL can complete at every moment of the life of
\* the instance, also before AwaitReady has returned, and what it has
\* returned is a URL.
C17_GetWebappURLAlwaysCompletes ==
    /\ Alive => ENABLED GetWebappURL
    /\ urlFrom = "local" => (Len(urlOut) >= 3 /\ urlOut[1] = "http")

\* GetWebappURL("/foo") returned the host-and-port URL while AwaitReady was
\* still waiting in its select.
C17_Witness ==
    /\ urlFrom = "local"
    /\ awaitPc = "select"
    /\ scanPc = "scanning"
    /\ baseURL = NilURL
    /\ urlOut = <<"http", "://", "localhost", ":", "8080", "/", "foo">>

\* C18: once AwaitReady has returned, no step writes baseURL or adminURL.
C18_NoWriteAfterReturn ==
    [][AwaitReturned => (baseURL' = baseURL /\ adminURL' = adminURL)]_vars

\* C20: AwaitReady has issued a kill exactly when it has returned the
\* timeout error, and a return with any other result leaves the child
\* process as it was.
C20_KillOnlyOnTimeout ==
    /\ []((AwaitReturned /\ awaitErr = ErrStartTimeout) <=>
              ("AwaitReady" \in killers))
    /\ [][(awaitPc = "select" /\ awaitPc' = "returned"
              /\ awaitErr' # ErrStartTimeout) =>
              (procState' = procState /\ killers' = killers)]_vars

\* AwaitReady returned the discovery failure and the child is still running.
C20_Witness ==
    /\ AwaitReturned
    /\ awaitErr = ErrNoURL
    /\ Running(procState)
    /\ killers = {}
    /\ closePc = "idle"

(***************************************************************************)
(* The completion channels                                                 *)
(***************************************************************************)
\* C19: the scanning goroutine and the cmd.Wait goroutine each send once:
\* a send takes the goroutine to its end, from which it never comes back,
\* and while a goroutine has its send still ahead its channel is empty, so
\* the send finds room whether or not the caller ever receives.
C19_SingleSend ==
    /\ [](/\ Len(errc) <= ChanCap
          /\ Len(closeErrc) <= ChanCap
          /\ (scanPc = "scanning" => CanSend(errc))
          /\ (waitPc = "waiting" => CanSend(closeErrc)))
    /\ [][/\ (Len(errc') > Len(errc)) =>
                (scanPc = "scanning" /\ scanPc' = "done")
          /\ (Len(closeErrc') > Len(closeErrc)) =>
                (waitPc = "waiting" /\ waitPc' = "done")
          /\ (scanPc = "done" => scanPc' = "done")
          /\ (waitPc = "done" => waitPc' = "done")]_vars

\* AwaitReady returned through the timer and Close through the delivery
\* failure; both goroutines have since sent their value, which nobody will
\* receive.
C19_Witness ==
    /\ awaitErr = ErrStartTimeout
    /\ closeErr \in QuitErrs
    /\ CloseReturned
    /\ scanPc = "done"
    /\ Len(errc) = 1
    /\ waitPc = "done"
    /\ Len(closeErrc) = 1

====
